---- MODULE Spec2Model ----
(***************************************************************************)
(* Model of hyperimpute/plugins/imputers/plugin_ice.py: the "ice" imputer  *)
(* plugin, a thin wrapper that configures a base model (the hyperimpute    *)
(* plugin) and delegates fit/transform to it.                              *)
(*                                                                         *)
(* Python values are tagged pairs <<tag, n>>: <<"None", 0>>, <<"int", n>>, *)
(* <<"df", n>> (a data frame), <<"plugin", n>> (an instance of the plugin  *)
(* class), <<"base", n>> (a base model built by the constructor) and       *)
(* <<"ext", n>> (a model object handed in by the caller).                  *)
(***************************************************************************)
EXTENDS Integers, Sequences, FiniteSets, TLC

\* ---------------------------------------------------------------- bounds
NumPlugins == 2     \* plugin instances that may be constructed
NumExt     == 1     \* model objects a caller may hand to the constructor
MaxVals    == 2     \* longest strategy / order list of the base model
MaxTime    == 2     \* last reading of the clock
MaxSteps   == 2     \* calls made on the plugin class and its instances
MaxData    == 1     \* data frames are <<"df", 0>> .. <<"df", MaxData>>

\* ---------------------------------------------------------------- values
None == <<"None", 0>>
PyInt(n) == <<"int", n>>

PluginIds  == 1 .. NumPlugins
ExtModels  == { <<"ext", k>> : k \in 1 .. NumExt }
DataFrames == { <<"df", d>> : d \in 0 .. MaxData }

\* Python truth value of None, an int or an object (an object without
\* __bool__ / __len__ is true).
Truthy(v) == ~(v = None \/ v = PyInt(0))

VARIABLES
    now,                    \* int(time.time())
    initial_strategy_vals,  \* base_model.initial_strategy_vals
    imputation_order_vals,  \* base_model.imputation_order_vals
    plugins,                \* plugin instance -> [constructed, _model]
    models,                 \* model object -> [config, fit_calls, transform_calls]
    last,                   \* the last call on the plugin and what it returned
    steps                   \* number of calls made so far

vars == <<now, initial_strategy_vals, imputation_order_vals,
          plugins, models, last, steps>>

\* The class object and its module-level alias.
IterativeChainedEquationsPlugin == "IterativeChainedEquationsPlugin"
plugin == IterativeChainedEquationsPlugin

\* ------------------------------------------------------------ constructor
\* Defaults of the signature of __init__.
DefaultMaxIter == 1000
Default(param) ==
    CASE param = "max_iter"         -> PyInt(DefaultMaxIter)
      [] param = "initial_strategy" -> PyInt(0)
      [] param = "imputation_order" -> PyInt(0)
      [] param = "random_state"     -> PyInt(0)
      [] param = "model"            -> None

\* Python's binding of a keyword call to the signature: an argument the
\* caller did not write takes its default.
Param(kw, param) == IF param \in DOMAIN kw THEN kw[param] ELSE Default(param)

\* The seed the constructor hands to the base model.
Seed(random_state, time) ==
    IF ~Truthy(random_state) THEN PyInt(time) ELSE random_state

\* The keyword arguments of the base_model(...) call.
BaseModelKwargsMutant(max_iter, initial_strategy, imputation_order, random_state) ==
    [ classifier_seed  |-> <<"logistic_regression">>,
      regression_seed  |-> <<"linear_regression">>,
      imputation_order |-> initial_strategy,
      baseline_imputer |-> imputation_order,
      random_state     |-> random_state,
      n_inner_iter     |-> PyInt(1),
      n_outer_iter     |-> max_iter,
      class_threshold  |-> PyInt(5) ]
BaseModelKwargs(max_iter, initial_strategy, imputation_order, random_state) ==
    [ classifier_seed  |-> <<"logistic_regression">>,
      regression_seed  |-> <<"linear_regression">>,
      imputation_order |-> imputation_order,
      baseline_imputer |-> initial_strategy,
      random_state     |-> random_state,
      n_inner_iter     |-> max_iter,
      n_outer_iter     |-> PyInt(1),
      class_threshold  |-> PyInt(5) ]

\* A model object nobody has called yet.
NewModel(config) ==
    [ config |-> config, fit_calls |-> <<>>, transform_calls |-> <<>> ]

\* The object base_model(...) returns: a new one on every call.
BaseModels == { m \in DOMAIN models : m[1] = "base" }
FreshBaseModel == <<"base", Cardinality(BaseModels) + 1>>

\* A call on the plugin: its receiver and arguments, what it returned and the
\* reading of the clock when it was made.
Call(op, self, X, args, kwargs, ret) ==
    [ op |-> op, self |-> self, X |-> X, args |-> args, kwargs |-> kwargs,
      ret |-> ret, time |-> now ]

\* IterativeChainedEquationsPlugin(**kw) creating instance p.
__init__(p, kw) ==
    LET max_iter         == Param(kw, "max_iter")
        initial_strategy == Param(kw, "initial_strategy")
        imputation_order == Param(kw, "imputation_order")
        random_state     == Param(kw, "random_state")
        model            == Param(kw, "model")
    IN  /\ steps < MaxSteps
        /\ ~plugins[p].constructed
        /\ IF Truthy(model)
           THEN /\ plugins' = [plugins EXCEPT ![p] =
                                 [constructed |-> TRUE, _model |-> model]]
                /\ UNCHANGED models
           ELSE LET m == FreshBaseModel
                    config == BaseModelKwargs(max_iter, initial_strategy,
                                  imputation_order, Seed(random_state, now))
                IN  /\ models' = models @@ (m :> NewModel(config))
                    /\ plugins' = [plugins EXCEPT ![p] =
                                     [constructed |-> TRUE, _model |-> m]]
        /\ last' = Call("__init__", <<"plugin", p>>, None, <<>>, kw, None)
        /\ steps' = steps + 1
        /\ UNCHANGED <<now, initial_strategy_vals, imputation_order_vals>>

\* ------------------------------------------------------------------ name
NameMutant == "ICE"
Name == "ice"

\* name() on the class, on its alias or through an instance (receiver).
name(receiver) ==
    /\ steps < MaxSteps
    /\ last' = Call("name", receiver, None, <<>>, <<>>, Name)
    /\ steps' = steps + 1
    /\ UNCHANGED <<now, initial_strategy_vals, imputation_order_vals,
                   plugins, models>>

\* --------------------------------------------------- hyperparameter_space
\* params.Integer(*a): the parameter object, kept as the arguments given.
Integer(a) == [ type |-> "Integer", args |-> a ]

HyperparameterSpaceMutant ==
    << Integer(<<"max_iter", 100, 1000, 100>>),
       Integer(<<"initial_strategy", 0, Len(initial_strategy_vals)>>),
       Integer(<<"imputation_order", 0, Len(imputation_order_vals)>>) >>
HyperparameterSpace ==
    << Integer(<<"max_iter", 100, 1000, 100>>),
       Integer(<<"initial_strategy", 0, Len(initial_strategy_vals) - 1>>),
       Integer(<<"imputation_order", 0, Len(imputation_order_vals) - 1>>) >>

hyperparameter_space(receiver, args, kwargs) ==
    /\ steps < MaxSteps
    /\ last' = Call("hyperparameter_space", receiver, None, args, kwargs,
                    HyperparameterSpace)
    /\ steps' = steps + 1
    /\ UNCHANGED <<now, initial_strategy_vals, imputation_order_vals,
                   plugins, models>>

\* ------------------------------------------------------- _fit, _transform
\* What the wrapped model may return: its code is not the plugin's.
FitReturns(m) == {m, None}
TransformReturns == DataFrames

FitCall(X, args, kwargs, ret) ==
    [ X |-> X, args |-> args, kwargs |-> kwargs, ret |-> ret ]
TransformCall(X, ret) == [ X |-> X, ret |-> ret ]

\* What _fit returns, given self and what the model's fit returned.
FitResultMutant(self, r) == r
FitResult(self, r) == self

_fit(p, X, args, kwargs) ==
    /\ steps < MaxSteps
    /\ plugins[p].constructed
    /\ LET m == plugins[p]._model
       IN  \E r \in FitReturns(m) :
             /\ models' = [models EXCEPT ![m].fit_calls =
                               Append(@, FitCall(X, args, kwargs, r))]
             /\ last' = Call("_fit", <<"plugin", p>>, X, args, kwargs,
                             FitResult(<<"plugin", p>>, r))
    /\ steps' = steps + 1
    /\ UNCHANGED <<now, initial_strategy_vals, imputation_order_vals, plugins>>

\* What _transform returns, given X and what the model's transform returned.
TransformResultMutant(X, r) == X
TransformResult(X, r) == r

_transform(p, X) ==
    /\ steps < MaxSteps
    /\ plugins[p].constructed
    /\ LET m == plugins[p]._model
       IN  \E r \in TransformReturns :
             /\ models' = [models EXCEPT ![m].transform_calls =
                               Append(@, TransformCall(X, r))]
             /\ last' = Call("_transform", <<"plugin", p>>, X, <<>>, <<>>,
                             TransformResult(X, r))
    /\ steps' = steps + 1
    /\ UNCHANGED <<now, initial_strategy_vals, imputation_order_vals, plugins>>

\* ------------------------------------------------------------------ clock
Tick ==
    /\ now < MaxTime
    /\ now' = now + 1
    /\ UNCHANGED <<initial_strategy_vals, imputation_order_vals,
                   plugins, models, last, steps>>

\* ----------------------------------------------------------------- inputs
\* Keyword calls of the constructor.  The three hyperparameters are written
\* together or not at all, random_state is written or not, and a model is
\* handed in alone or with every other argument.
HyperArgs == { <<>>,
               [max_iter |-> PyInt(500), initial_strategy |-> PyInt(1),
                imputation_order |-> PyInt(2)] }
SeedArgs  == { <<>>, [random_state |-> None], [random_state |-> PyInt(0)],
               [random_state |-> PyInt(7)] }
CtorCalls ==
    { h @@ s : h \in HyperArgs, s \in SeedArgs } \cup
    { [model |-> m] @@ a : m \in ExtModels,
        a \in { <<>>, [max_iter |-> PyInt(500), initial_strategy |-> PyInt(1),
                       imputation_order |-> PyInt(2), random_state |-> PyInt(7)] } }

\* Instances are created one after the other.
NextPlugin == Cardinality({ p \in PluginIds : plugins[p].constructed }) + 1

\* A static method is called on the class (or its alias) or through an
\* instance that exists.
ClassRef == <<plugin, 0>>
Receivers == { ClassRef } \cup
             { <<"plugin", p>> : p \in { q \in PluginIds : plugins[q].constructed } }

\* Extra positional and keyword arguments of a call.
Extras == { [args |-> <<>>, kwargs |-> <<>>],
            [args |-> <<PyInt(1)>>, kwargs |-> [verbose |-> PyInt(1)]] }

\* The lists of the base model class: their length is all the plugin reads.
Lists == { [i \in 1 .. n |-> i] : n \in 1 .. MaxVals }

Init ==
    /\ now = 1
    /\ initial_strategy_vals \in Lists
    /\ imputation_order_vals \in Lists
    /\ plugins = [p \in PluginIds |-> [constructed |-> FALSE, _model |-> None]]
    /\ models = [m \in ExtModels |-> NewModel(<<>>)]
    /\ last = [ op |-> "none", self |-> None, X |-> None, args |-> <<>>,
                kwargs |-> <<>>, ret |-> None, time |-> 0 ]
    /\ steps = 0

Next ==
    \/ \E kw \in CtorCalls : NextPlugin \in PluginIds /\ __init__(NextPlugin, kw)
    \/ \E r \in Receivers : name(r)
    \/ \E r \in Receivers, e \in Extras : hyperparameter_space(r, e.args, e.kwargs)
    \/ \E p \in PluginIds, X \in DataFrames, e \in Extras :
           _fit(p, X, e.args, e.kwargs)
    \/ \E p \in PluginIds, X \in DataFrames : _transform(p, X)
    \/ Tick

Spec == Init /\ [][Next]_vars

\* ================================================================= claims
\* The step just taken was a call of op (every call advances steps).
Called(op) == steps' = steps + 1 /\ last'.op = op
\* The instance a call was made on, and the model it wraps.
Self == last.self[2]
Wrapped == plugins[Self]._model
\* The constructor call in last built a base model (no usable model given).
BuiltBase == last.op = "__init__" /\ ~Truthy(Param(last.kwargs, "model"))

\* C1: _fit(X, *args, **kwargs) calls the wrapped model's fit exactly once,
\* with the same X, args and kwargs, does nothing else to any model or to the
\* plugin, and returns self.
C1_FitDelegatesOnce ==
    [][ Called("_fit") =>
          LET self == last'.self
              m    == plugins[self[2]]._model
              old  == models[m].fit_calls
              new  == models'[m].fit_calls
          IN  /\ Len(new) = Len(old) + 1
              /\ SubSeq(new, 1, Len(old)) = old
              /\ new[Len(new)].X = last'.X
              /\ new[Len(new)].args = last'.args
              /\ new[Len(new)].kwargs = last'.kwargs
              /\ models'[m].transform_calls = models[m].transform_calls
              /\ models'[m].config = models[m].config
              /\ DOMAIN models' = DOMAIN models
              /\ \A o \in DOMAIN models \ {m} : models'[o] = models[o]
              /\ plugins' = plugins
              /\ last'.ret = self ]_vars

C1_Witness ==
    /\ last.op = "_fit"
    /\ last.args # <<>>
    /\ Len(models[Wrapped].fit_calls) = 1
    /\ models[Wrapped].fit_calls[1].ret = Wrapped
    /\ last.ret = last.self

\* C2: _transform(X) calls the wrapped model's transform exactly once with
\* the same X and returns what that call returned, changing nothing else;
\* so it does whether or not _fit was ever called.
C2_TransformDelegates ==
    [][ Called("_transform") =>
          LET self == last'.self
              m    == plugins[self[2]]._model
              old  == models[m].transform_calls
              new  == models'[m].transform_calls
          IN  /\ Len(new) = Len(old) + 1
              /\ SubSeq(new, 1, Len(old)) = old
              /\ new[Len(new)].X = last'.X
              /\ last'.ret = new[Len(new)].ret
              /\ models'[m].fit_calls = models[m].fit_calls
              /\ models'[m].config = models[m].config
              /\ DOMAIN models' = DOMAIN models
              /\ \A o \in DOMAIN models \ {m} : models'[o] = models[o]
              /\ plugins' = plugins ]_vars

C2_Witness ==
    /\ last.op = "_transform"
    /\ models[Wrapped].fit_calls = <<>>
    /\ Len(models[Wrapped].transform_calls) = 1
    /\ last.ret # last.X

\* C3: hyperparameter_space() returns three Integer parameters, in order:
\* max_iter 100..1000 step 100, initial_strategy 0..(number of initial
\* strategies - 1), imputation_order 0..(number of imputation orders - 1),
\* whatever the arguments and whatever instance it is called through.
C3_HyperparameterSpace ==
    last.op = "hyperparameter_space" =>
        LET r == last.ret
        IN  /\ Len(r) = 3
            /\ \A i \in 1 .. 3 : r[i].type = "Integer"
            /\ r[1].args = <<"max_iter", 100, 1000, 100>>
            /\ r[2].args[1] = "initial_strategy"
            /\ r[2].args[2] = 0
            /\ r[2].args[3] = Len(initial_strategy_vals) - 1
            /\ r[3].args[1] = "imputation_order"
            /\ r[3].args[2] = 0
            /\ r[3].args[3] = Len(imputation_order_vals) - 1

C3_Witness ==
    /\ last.op = "hyperparameter_space"
    /\ last.self # ClassRef
    /\ last.args # <<>>
    /\ Len(initial_strategy_vals) # Len(imputation_order_vals)
    /\ last.ret[3].args[3] = Len(imputation_order_vals) - 1

\* C4: name() returns "ice", on the class and through any instance, whatever
\* was called before.
C4_NameIsIce == last.op = "name" => last.ret = "ice"

C4_Witness ==
    /\ last.op = "name"
    /\ last.self # ClassRef
    /\ plugins[Self].constructed
    /\ last.ret = "ice"

\* C5: a constructor call that writes no max_iter gives the base model
\* 500 rounds (n_inner_iter).
C5_DefaultMaxIter500 ==
    (BuiltBase /\ "max_iter" \notin DOMAIN last.kwargs) =>
        models[Wrapped].config.n_inner_iter = PyInt(500)

\* C6: without a random_state (and without a model) the base model's seed is
\* the current time; with a random_state given by the caller (an int, not
\* None), the seed is that value.
C6_SeedIsTimeOrGiven ==
    BuiltBase =>
        LET seed == models[Wrapped].config.random_state
        IN  IF "random_state" \in DOMAIN last.kwargs /\ last.kwargs.random_state # None
            THEN seed = last.kwargs.random_state
            ELSE seed = PyInt(last.time)

\* C7: the regression learner the constructor configures on the base model
\* is BayesianRidge.
BayesianRidge == {"bayesian_ridge", "BayesianRidge"}
C7_RegressionIsBayesianRidge ==
    BuiltBase =>
        LET learners == models[Wrapped].config.regression_seed
        IN  \A i \in 1 .. Len(learners) : learners[i] \in BayesianRidge

\* C8: without a model, the constructor builds exactly one base model, with
\* n_inner_iter = max_iter, n_outer_iter = 1, baseline_imputer =
\* initial_strategy, imputation_order = imputation_order, class_threshold = 5,
\* classifier_seed = ["logistic_regression"] and regression_seed =
\* ["linear_regression"], and keeps it as its wrapped model.
C8_BuildsOneBaseModel ==
    [][ (Called("__init__") /\ ~Truthy(Param(last'.kwargs, "model"))) =>
          LET kw    == last'.kwargs
              built == DOMAIN models' \ DOMAIN models
          IN  /\ Cardinality(built) = 1
              /\ \A o \in DOMAIN models : models'[o] = models[o]
              /\ \A m \in built :
                   /\ m[1] = "base"
                   /\ plugins'[last'.self[2]]._model = m
                   /\ models'[m].fit_calls = <<>>
                   /\ models'[m].transform_calls = <<>>
                   /\ DOMAIN models'[m].config =
                        {"classifier_seed", "regression_seed", "imputation_order",
                         "baseline_imputer", "random_state", "n_inner_iter",
                         "n_outer_iter", "class_threshold"}
                   /\ models'[m].config.n_inner_iter = Param(kw, "max_iter")
                   /\ models'[m].config.n_outer_iter = PyInt(1)
                   /\ models'[m].config.baseline_imputer = Param(kw, "initial_strategy")
                   /\ models'[m].config.imputation_order = Param(kw, "imputation_order")
                   /\ models'[m].config.class_threshold = PyInt(5)
                   /\ models'[m].config.classifier_seed = <<"logistic_regression">>
                   /\ models'[m].config.regression_seed = <<"linear_regression">> ]_vars

C8_Witness ==
    /\ BuiltBase
    /\ "max_iter" \in DOMAIN last.kwargs
    /\ Wrapped[1] = "base"
    /\ models[Wrapped].config.n_inner_iter = PyInt(500)
    /\ models[Wrapped].config.baseline_imputer = PyInt(1)
    /\ models[Wrapped].config.imputation_order = PyInt(2)

====
